---- MODULE Spec2Model ----
(***************************************************************************)
(* A model of gui-app.py: PdfOcrProcessor.process_pdf (the document        *)
(* pipeline), PdfOcrProcessor._create_text_layer and _write_text_block     *)
(* (the synthesis of one page's invisible text layer).                     *)
(*                                                                         *)
(* Python's 0-based list indices are 1-based sequence indices here: word   *)
(* k of the model is ocr_data[...][k-1] of the code, page k is pages[k-1]. *)
(*                                                                         *)
(* A text is a sequence of characters, one letter per class of character:  *)
(*   "a"  an ordinary character                                            *)
(*   " "  white space (removed by str.strip at either end)                 *)
(*   "S"  a character UTF-8 cannot encode (dropped by encode(.., 'ignore'))*)
(*   "X"  a character on which canvas.drawString raises                    *)
(***************************************************************************)
EXTENDS Integers, Sequences, FiniteSets, TLC

VARIABLES
    \* ---- process_pdf
    pc,            \* the step process_pdf is at
    input_exists,  \* os.path.exists(input_path)
    n_pages,       \* number of pages of the input document
    page_size,     \* page k -> (width, height) of its rasterized image
    out_dir,       \* os.path.dirname(output_path): "none" (empty), "absent", "present"
    out_file,      \* the file at output_path
    out_file0,     \* the file at output_path when the run started
    images,        \* convert_from_path's result
    writer,        \* PdfWriter's pages
    i,             \* the loop's page index (pages done so far)
    ocr_data,      \* pytesseract's result for the page / _create_text_layer's argument
    text_layer,    \* the layer of the page being processed
    merged,        \* original_page after merge_page
    result,        \* what process_pdf returned
    failed_at,     \* the step whose exception the handler caught
    writes,        \* how many times output_path was opened for writing
    rasterized,    \* how many times convert_from_path was called
    recognized,    \* the pages handed to image_to_data, in call order
    same_path,     \* output_path names the input file
    in_file,       \* the content of the file at input_path
    \* ---- two calls of process_pdf on one processor
    run,           \* which call this is
    out1,          \* the file the first call wrote
    ocr_log,       \* what image_to_data returned for each image
    \* ---- main
    gpc,           \* the position of main's event loop
    selected_file, \* main's selected_file
    output_folder, \* main's output_folder
    calls,         \* the arguments of each call of process_pdf, in call order
    output_name,   \* values["-name-"] as last read
    popups,        \* the message of the last popup main has shown
    event,         \* the event window.read() returned last
    \* ---- _create_text_layer
    lpc,           \* the position in _create_text_layer
    wi,            \* the loop's word index
    size,          \* _create_text_layer's size argument
    st             \* last_block_num, text_block, the canvas and what was flushed

pvars == <<pc, input_exists, n_pages, page_size, out_dir, out_file, out_file0,
           images, writer, i, text_layer, merged, result, failed_at, writes,
           rasterized, recognized, in_file, same_path, run, out1, ocr_log,
           gpc, selected_file, output_folder, output_name, calls, popups, event>>
\* what no step of process_pdf assigns
others == <<same_path, run, out1, ocr_log, gpc, selected_file, output_folder,
            output_name, calls, popups, event>>
lvars == <<lpc, wi, size, st>>
vars == <<pvars, lvars, ocr_data>>

----------------------------------------------------------------------------
(* Bounds and program constants *)

MaxWords == 4
MaxPageWords == 1
MaxPages == 2
MaxRuns == 2

conf_threshold == 60
Sentinel == -1

Fields == {"text", "conf", "left", "top", "width", "height", "block_num"}

----------------------------------------------------------------------------
(* Inputs: the words an OCR run may report *)

Word(t, c, x, y, w, h, b) ==
    [text |-> t, conf |-> c, left |-> x, top |-> y, width |-> w, height |-> h,
     block_num |-> b]

Hello == Word(<<"a">>, 95, 10, 20, 50, 15, 1)
World == Word(<<"a", "a">>, 40, 70, 20, 50, 15, 1)
Edge == Word(<<" ", "a", " ">>, 60, 10, 100, 40, 20, 1)
Next2 == Word(<<"a", "S">>, 61, 30, 200, 40, 20, 2)
Low2 == Word(<<"a">>, 59, 90, 200, 40, 20, 2)
Blank == Word(<<" ">>, 95, 5, 300, 10, 10, 1)
Bad2 == Word(<<"a", "X">>, 90, 50, 300, 40, 20, 2)
Struct == Word(<<>>, -1, 0, 0, 800, 1000, 0)
Surr == Word(<<"S">>, 95, 20, 400, 10, 10, 1)

Catalog == {Hello, Edge, Next2, Low2, Blank, Bad2, Struct, Surr}
PageCatalog == {Hello, World, Bad2}

Sizes == {<<800, 1000>>, <<600, 40>>}

RECURSIVE SeqsUpTo(_, _)
SeqsUpTo(S, n) ==
    IF n = 0 THEN {<<>>}
    ELSE LET shorter == SeqsUpTo(S, n - 1)
         IN shorter \cup {Append(s, x) : s \in {t \in shorter : Len(t) = n - 1}, x \in S}

\* pytesseract's Output.DICT for a sequence of words: one list per field.
Dict(ws) == [f \in Fields |-> [k \in 1..Len(ws) |-> ws[k][f]]]

\* The ways a result can be malformed: a field missing, or one field's list one
\* entry shorter or one entry longer than the others.
Defects == {<<"none", "text">>} \cup ({"missing", "short", "long"} \X Fields)

Damage(d, defect) ==
    LET kind == defect[1]
        f == defect[2]
    IN CASE kind = "none" -> d
         [] kind = "missing" -> [g \in Fields \ {f} |-> d[g]]
         [] kind = "short" -> [d EXCEPT ![f] = SubSeq(@, 1, Len(@) - 1)]
         [] kind = "long" -> [d EXCEPT ![f] = Append(@, Hello[f])]

WellFormed(d) ==
    /\ DOMAIN d = Fields
    /\ \A f \in Fields : Len(d[f]) = Len(d["text"])

LayerInputs == {Dict(ws) : ws \in SeqsUpTo(Catalog, MaxWords)}
PageInputs ==
    {Damage(Dict(ws), df) : ws \in SeqsUpTo(PageCatalog, MaxPageWords), df \in Defects}

----------------------------------------------------------------------------
(* _write_text_block *)

RECURSIVE LStrip(_)
LStrip(t) == IF t # <<>> /\ Head(t) = " " THEN LStrip(Tail(t)) ELSE t

RECURSIVE RStrip(_)
RStrip(t) ==
    IF t # <<>> /\ t[Len(t)] = " " THEN RStrip(SubSeq(t, 1, Len(t) - 1)) ELSE t

\* item['text'].strip()
Strip(t) == RStrip(LStrip(t))

\* text.encode('utf-8', 'ignore').decode('utf-8')
CleanText(t) == SelectSeq(t, LAMBDA ch : ch # "S")

\* canvas_obj.drawString raises on this text
DrawRaises(t) == \E k \in 1..Len(t) : t[k] = "X"

PdfYNoHeight(item, sz) == sz[2] - item.y

\* y = size[1] - item['y'] - item['height']
PdfY(item, sz) == sz[2] - item.y - item.height

WriteItemAborting(c, item, sz) ==
    LET text == Strip(item.text)
    IN IF text = <<>> THEN c
       ELSE IF DrawRaises(CleanText(text)) THEN <<>>
       ELSE Append(c, [x |-> item.x, y |-> PdfY(item, sz), text |-> CleanText(text),
                       idx |-> item.idx])

\* One iteration of the loop over text_block: the canvas after it. A drawing
\* command records the word it came from (idx).
WriteItem(c, item, sz) ==
    LET text == Strip(item.text)
    IN IF text = <<>> THEN c
       ELSE IF DrawRaises(CleanText(text)) THEN c
       ELSE Append(c, [x |-> item.x, y |-> PdfY(item, sz), text |-> CleanText(text),
                       idx |-> item.idx])

RECURSIVE WriteTextBlock(_, _, _)
WriteTextBlock(c, text_block, sz) ==
    IF text_block = <<>> THEN c
    ELSE WriteTextBlock(WriteItem(c, Head(text_block), sz), Tail(text_block), sz)

----------------------------------------------------------------------------
(* _create_text_layer *)

\* The state of the loop; flushed lists the blocks handed to _write_text_block,
\* each as the indices of its words; exc is the exception that left the loop.
LayerStart ==
    [last_block_num |-> Sentinel, text_block |-> <<>>, canvas |-> <<>>,
     flushed |-> <<>>, exc |-> "none"]

\* ocr_data[f][k]: the exception it raises, if any
Lookup(d, f, k) ==
    IF f \notin DOMAIN d THEN "KeyError"
    ELSE IF k > Len(d[f]) THEN "IndexError"
    ELSE "none"

BelowOrAtThreshold(conf) == conf <= conf_threshold

\* conf < self.conf_threshold
BelowThreshold(conf) == conf < conf_threshold

BlockGreater(b, last) == b > last

\* ocr_data['block_num'][i] != last_block_num
BlockChanged(b, last) == b # last

Indices(text_block) == [k \in 1..Len(text_block) |-> text_block[k].idx]

\* self._write_text_block(c, text_block, size)
Flush(s, sz) ==
    [s EXCEPT !.canvas = WriteTextBlock(@, s.text_block, sz),
              !.flushed = Append(@, Indices(s.text_block))]

\* The fields read when the word is appended, in the order the code reads them.
ItemFields == <<"text", "left", "top", "width", "height">>

FirstError(d, k) ==
    LET bad == {n \in 1..Len(ItemFields) : Lookup(d, ItemFields[n], k) # "none"}
    IN IF bad = {} THEN "none"
       ELSE Lookup(d, ItemFields[CHOOSE n \in bad : \A m \in bad : n <= m], k)

LoopStepFlushFirst(s, d, k, sz) ==
    IF Lookup(d, "conf", k) # "none" THEN [s EXCEPT !.exc = Lookup(d, "conf", k)]
    ELSE IF Lookup(d, "block_num", k) # "none"
         THEN [s EXCEPT !.exc = Lookup(d, "block_num", k)]
    ELSE LET b == d["block_num"][k]
             s1 == IF BlockChanged(b, s.last_block_num)
                   THEN [(IF s.text_block # <<>> THEN Flush(s, sz) ELSE s)
                            EXCEPT !.text_block = <<>>, !.last_block_num = b]
                   ELSE s
         IN IF BelowThreshold(d["conf"][k]) THEN s1
            ELSE IF FirstError(d, k) # "none" THEN [s1 EXCEPT !.exc = FirstError(d, k)]
            ELSE [s1 EXCEPT !.text_block =
                     Append(@, [text |-> d["text"][k], x |-> d["left"][k],
                                y |-> d["top"][k], width |-> d["width"][k],
                                height |-> d["height"][k], idx |-> k])]

LoopStepNoReset(s, d, k, sz) ==
    IF Lookup(d, "conf", k) # "none" THEN [s EXCEPT !.exc = Lookup(d, "conf", k)]
    ELSE IF BelowThreshold(d["conf"][k]) THEN s
    ELSE IF Lookup(d, "block_num", k) # "none"
         THEN [s EXCEPT !.exc = Lookup(d, "block_num", k)]
    ELSE LET b == d["block_num"][k]
             s1 == IF BlockChanged(b, s.last_block_num)
                   THEN [(IF s.text_block # <<>> THEN Flush(s, sz) ELSE s)
                            EXCEPT !.last_block_num = b]
                   ELSE s
         IN IF FirstError(d, k) # "none" THEN [s1 EXCEPT !.exc = FirstError(d, k)]
            ELSE [s1 EXCEPT !.text_block =
                     Append(@, [text |-> d["text"][k], x |-> d["left"][k],
                                y |-> d["top"][k], width |-> d["width"][k],
                                height |-> d["height"][k], idx |-> k])]

\* The body of the loop for word k.
LoopStep(s, d, k, sz) ==
    IF Lookup(d, "conf", k) # "none" THEN [s EXCEPT !.exc = Lookup(d, "conf", k)]
    ELSE IF BelowThreshold(d["conf"][k]) THEN s
    ELSE IF Lookup(d, "block_num", k) # "none"
         THEN [s EXCEPT !.exc = Lookup(d, "block_num", k)]
    ELSE LET b == d["block_num"][k]
             s1 == IF BlockChanged(b, s.last_block_num)
                   THEN [(IF s.text_block # <<>> THEN Flush(s, sz) ELSE s)
                            EXCEPT !.text_block = <<>>, !.last_block_num = b]
                   ELSE s
         IN IF FirstError(d, k) # "none" THEN [s1 EXCEPT !.exc = FirstError(d, k)]
            ELSE [s1 EXCEPT !.text_block =
                     Append(@, [text |-> d["text"][k], x |-> d["left"][k],
                                y |-> d["top"][k], width |-> d["width"][k],
                                height |-> d["height"][k], idx |-> k])]

FinalFlushForgotten(s, sz) == s

\* After the loop: the final block.
FinalFlush(s, sz) == IF s.text_block # <<>> THEN Flush(s, sz) ELSE s

RECURSIVE Loop(_, _, _, _, _)
Loop(s, d, k, n, sz) ==
    IF k > n \/ s.exc # "none" THEN s
    ELSE Loop(LoopStep(s, d, k, sz), d, k + 1, n, sz)

\* The whole function: the final state of the loop, exc = "none" when it returned.
CreateTextLayer(d, sz) ==
    IF "text" \notin DOMAIN d THEN [LayerStart EXCEPT !.exc = "KeyError"]
    ELSE LET s == Loop(LayerStart, d, 1, Len(d["text"]), sz)
         IN IF s.exc # "none" THEN s ELSE FinalFlush(s, sz)

----------------------------------------------------------------------------
(* process_pdf *)

NoResult == [returned |-> FALSE, success |-> FALSE, message |-> ""]
Success == [returned |-> TRUE, success |-> TRUE, message |-> "Processing completed successfully"]

Absent == [state |-> "absent", pages |-> <<>>]
Old == [state |-> "old", pages |-> <<>>]
NoLayer == [image |-> 0, canvas |-> <<>>]
NoPage == [orig |-> 0, layer |-> NoLayer]

Steps == {"Validate", "Rasterize", "Recognize", "Synthesize", "Composite", "Append",
          "Finalize"}

ExceptOnlyOSError(step) ==
    IF step = "Synthesize"
    THEN [pc |-> "Raised", result |-> NoResult]
    ELSE [pc |-> "Failed",
          result |-> [returned |-> TRUE, success |-> FALSE,
                      message |-> "Error processing PDF"]]

\* except Exception as e: ... return False, error_msg
Except(step) ==
    [pc |-> "Failed",
     result |-> [returned |-> TRUE, success |-> FALSE, message |-> "Error processing PDF"]]

\* An exception raised by the given step, inside the try block.
Raise(step) ==
    /\ pc' = Except(step).pc
    /\ result' = Except(step).result
    /\ failed_at' = step

LoopDoneEarly(k, imgs) == k >= 1 \/ k = Len(imgs)

\* the for loop over enumerate(images) is exhausted
LoopDone(k, imgs) == k = Len(imgs)

KeepWriter(w) == w

\* writer = PdfWriter(): a new, empty writer in every call
NewWriter(w) == <<>>

AddPageFront(w, p) == <<p>> \o w

AddPageSkipEmpty(w, p) == IF p.layer.canvas = <<>> THEN w ELSE Append(w, p)

\* writer.add_page(original_page)
AddPage(w, p) == Append(w, p)

ValidateNoCheck ==
    /\ pc = "Validate"
    /\ IF out_dir = "none"
       THEN Raise("Validate") /\ UNCHANGED out_dir
       ELSE \E ok \in BOOLEAN :
               IF ok
               THEN /\ out_dir' = "present"
                    /\ pc' = "Rasterize"
                    /\ UNCHANGED <<result, failed_at>>
               ELSE Raise("Validate") /\ UNCHANGED out_dir
    /\ UNCHANGED <<in_file, input_exists, n_pages, page_size, out_file, out_file0, images,
                   writer, i, ocr_data, text_layer, merged, writes, rasterized,
                   recognized, lvars, others>>

\* os.path.exists(input_path), then os.makedirs(dirname(output_path), exist_ok=True):
\* makedirs raises on an empty dirname, and may fail on the file system.
Validate ==
    /\ pc = "Validate"
    /\ IF ~input_exists
       THEN Raise("Validate") /\ UNCHANGED out_dir
       ELSE IF out_dir = "none"
       THEN Raise("Validate") /\ UNCHANGED out_dir
       ELSE \E ok \in BOOLEAN :
               IF ok
               THEN /\ out_dir' = "present"
                    /\ pc' = "Rasterize"
                    /\ UNCHANGED <<result, failed_at>>
               ELSE Raise("Validate") /\ UNCHANGED out_dir
    /\ UNCHANGED <<in_file, input_exists, n_pages, page_size, out_file, out_file0, images,
                   writer, i, ocr_data, text_layer, merged, writes, rasterized,
                   recognized, lvars, others>>

\* images = convert_from_path(...); reader = PdfReader(input_path);
\* writer = PdfWriter(); the loop starts. A missing input makes the conversion raise.
Rasterize ==
    /\ pc = "Rasterize"
    /\ rasterized' = rasterized + 1
    /\ \E ok \in BOOLEAN :
          IF ok /\ input_exists
          THEN /\ images' = [k \in 1..n_pages |-> [page |-> k, size |-> page_size[k]]]
               /\ writer' = NewWriter(writer)
               /\ i' = 0
               /\ pc' = IF LoopDone(0, images') THEN "Finalize" ELSE "Recognize"
               /\ UNCHANGED <<result, failed_at>>
          ELSE Raise("Rasterize") /\ UNCHANGED <<images, writer, i>>
    /\ UNCHANGED <<in_file, input_exists, n_pages, page_size, out_dir, out_file, out_file0,
                   ocr_data, text_layer, merged, writes, recognized, lvars, others>>

\* ocr_data = pytesseract.image_to_data(image, ...)
Recognize ==
    /\ pc = "Recognize"
    /\ recognized' = Append(recognized, images[i + 1].page)
    /\ \E ok \in BOOLEAN, o \in PageInputs :
          IF ok
          THEN /\ ocr_data' = o
               /\ pc' = "Synthesize"
               /\ UNCHANGED <<result, failed_at>>
          ELSE Raise("Recognize") /\ UNCHANGED ocr_data
    /\ UNCHANGED <<in_file, input_exists, n_pages, page_size, out_dir, out_file, out_file0,
                   images, writer, i, text_layer, merged, writes, rasterized, lvars, others>>

\* text_layer = self._create_text_layer(ocr_data, image.size)
Synthesize ==
    /\ pc = "Synthesize"
    /\ LET r == CreateTextLayer(ocr_data, images[i + 1].size)
       IN IF r.exc = "none"
          THEN /\ text_layer' = [image |-> images[i + 1].page, canvas |-> r.canvas]
               /\ pc' = "Composite"
               /\ UNCHANGED <<result, failed_at>>
          ELSE Raise("Synthesize") /\ UNCHANGED text_layer
    /\ UNCHANGED <<in_file, input_exists, n_pages, page_size, out_dir, out_file, out_file0,
                   images, writer, i, ocr_data, merged, writes, rasterized,
                   recognized, lvars, others>>

\* original_page = reader.pages[i]; text_page = ...; original_page.merge_page(text_page)
Composite ==
    /\ pc = "Composite"
    /\ \E ok \in BOOLEAN :
          IF ok
          THEN /\ merged' = [orig |-> i + 1, layer |-> text_layer]
               /\ pc' = "Append"
               /\ UNCHANGED <<result, failed_at>>
          ELSE Raise("Composite") /\ UNCHANGED merged
    /\ UNCHANGED <<in_file, input_exists, n_pages, page_size, out_dir, out_file, out_file0,
                   images, writer, i, ocr_data, text_layer, writes, rasterized,
                   recognized, lvars, others>>

\* writer.add_page(original_page), and the loop goes on to the next image
AppendPage ==
    /\ pc = "Append"
    /\ \E ok \in BOOLEAN :
          IF ok
          THEN /\ writer' = AddPage(writer, merged)
               /\ i' = i + 1
               /\ pc' = IF LoopDone(i + 1, images) THEN "Finalize" ELSE "Recognize"
               /\ UNCHANGED <<result, failed_at>>
          ELSE Raise("Append") /\ UNCHANGED <<writer, i>>
    /\ UNCHANGED <<in_file, input_exists, n_pages, page_size, out_dir, out_file, out_file0,
                   images, ocr_data, text_layer, merged, writes, rasterized,
                   recognized, lvars, others>>

\* with open(output_path, 'wb') as output_file: writer.write(output_file)
\* open may fail (nothing changes); it otherwise creates or truncates the file,
\* and writer.write may then fail part-way. When output_path names the input
\* file, that file is the one opened.
Finalize ==
    /\ pc = "Finalize"
    /\ \E outcome \in {"ok", "open_fails", "write_fails"} :
          CASE outcome = "ok" ->
                  /\ out_file' = [state |-> "written", pages |-> writer]
                  /\ writes' = writes + 1
                  /\ pc' = "Done"
                  /\ result' = Success
                  /\ UNCHANGED failed_at
            [] outcome = "open_fails" ->
                  Raise("Finalize") /\ UNCHANGED <<out_file, writes>>
            [] outcome = "write_fails" ->
                  /\ out_file' = [state |-> "partial", pages |-> <<>>]
                  /\ writes' = writes + 1
                  /\ Raise("Finalize")
    /\ in_file' = IF same_path THEN out_file' ELSE in_file
    /\ UNCHANGED <<input_exists, n_pages, page_size, out_dir, images, writer, i,
                   out_file0, ocr_data, text_layer, merged, rasterized, recognized,
                   lvars, others>>

\* No second call, no event loop.
OneCall ==
    /\ run = 1
    /\ out1 = Absent
    /\ ocr_log = <<>>

NoGui ==
    /\ gpc = "idle"
    /\ selected_file = ""
    /\ output_folder = ""
    /\ output_name = ""
    /\ calls = <<>>
    /\ popups = ""
    /\ event = "none"

LayerIdle ==
    /\ lpc = "idle"
    /\ wi = 0
    /\ size = <<0, 0>>
    /\ st = LayerStart

Init ==
    /\ pc = "Validate"
    /\ input_exists \in BOOLEAN
    /\ n_pages \in IF input_exists THEN 1..MaxPages ELSE {0}
    /\ page_size \in [1..n_pages -> Sizes]
    /\ out_dir \in {"none", "absent", "present"}
    /\ out_file \in {Absent, Old}
    /\ out_dir = "absent" => out_file = Absent
    /\ out_file0 = out_file
    /\ in_file = IF input_exists THEN Old ELSE Absent
    /\ same_path \in BOOLEAN
    /\ same_path => (input_exists /\ out_file = Old /\ out_dir # "absent")
    /\ OneCall
    /\ NoGui
    /\ images = <<>>
    /\ writer = <<>>
    /\ i = 0
    /\ ocr_data = Dict(<<>>)
    /\ text_layer = NoLayer
    /\ merged = NoPage
    /\ result = NoResult
    /\ failed_at = "none"
    /\ writes = 0
    /\ rasterized = 0
    /\ recognized = <<>>
    /\ LayerIdle

Next ==
    \/ Validate
    \/ Rasterize
    \/ Recognize
    \/ Synthesize
    \/ Composite
    \/ AppendPage
    \/ Finalize

Spec == Init /\ [][Next]_vars

----------------------------------------------------------------------------
(* _create_text_layer, one word at a time *)

PipelineIdle ==
    /\ pc = "idle"
    /\ input_exists = TRUE
    /\ n_pages = 0
    /\ page_size = <<>>
    /\ out_dir = "present"
    /\ out_file = Absent
    /\ out_file0 = Absent
    /\ in_file = Old
    /\ same_path = FALSE
    /\ OneCall
    /\ NoGui
    /\ images = <<>>
    /\ writer = <<>>
    /\ i = 0
    /\ text_layer = NoLayer
    /\ merged = NoPage
    /\ result = NoResult
    /\ failed_at = "none"
    /\ writes = 0
    /\ rasterized = 0
    /\ recognized = <<>>

InitLayer ==
    /\ PipelineIdle
    /\ ocr_data \in LayerInputs \cup PageInputs
    /\ size \in Sizes
    /\ lpc = "call"
    /\ wi = 0
    /\ st = LayerStart

\* The canvas is made, last_block_num and text_block are set, and
\* range(len(ocr_data['text'])) is evaluated.
LayerEnter ==
    /\ lpc = "call"
    /\ IF "text" \in DOMAIN ocr_data
       THEN lpc' = "loop" /\ wi' = 1 /\ UNCHANGED st
       ELSE lpc' = "raised" /\ st' = [st EXCEPT !.exc = "KeyError"] /\ UNCHANGED wi
    /\ UNCHANGED <<pvars, ocr_data, size>>

\* One iteration of the loop over the words.
LayerWord ==
    /\ lpc = "loop"
    /\ wi <= Len(ocr_data["text"])
    /\ st' = LoopStep(st, ocr_data, wi, size)
    /\ IF st'.exc = "none"
       THEN wi' = wi + 1 /\ UNCHANGED lpc
       ELSE lpc' = "raised" /\ UNCHANGED wi
    /\ UNCHANGED <<pvars, ocr_data, size>>

\* The loop is over: the final block is written, the canvas saved and returned.
LayerReturn ==
    /\ lpc = "loop"
    /\ wi > Len(ocr_data["text"])
    /\ st' = FinalFlush(st, size)
    /\ lpc' = "returned"
    /\ UNCHANGED <<pvars, ocr_data, size, wi>>

NextLayer ==
    \/ LayerEnter
    \/ LayerWord
    \/ LayerReturn

SpecLayer == InitLayer /\ [][NextLayer]_vars

\* The word-by-word machine and the function agree.
StepsAgree ==
    lpc \in {"returned", "raised"} => st = CreateTextLayer(ocr_data, size)

----------------------------------------------------------------------------
(* main: the event loop *)

\* what the dialogs and the input field can give; "" is a cancelled dialog or an
\* emptied field, "gone.pdf" a file that is not there when processing starts
FileChoices == {"", "scan.pdf", "gone.pdf"}
FolderChoices == {"", "out"}
NameChoices == {"", "output"}

\* What a call of process_pdf returns and leaves at output_path: success and
\* the written file, or failure and the file untouched or partly written.
Failure == Except("Validate").result

ProcessPdf(input, file) ==
    IF input # "scan.pdf"
    THEN {[result |-> Failure, file |-> file]}
    ELSE {[result |-> Success, file |-> [state |-> "written", pages |-> <<>>]],
          [result |-> Failure, file |-> file],
          [result |-> Failure, file |-> [state |-> "partial", pages |-> <<>>]]}

AllGivenButName(file, folder, name) == file # "" /\ folder # ""

\* all([selected_file, output_folder, output_name])
AllGiven(file, folder, name) == file # "" /\ folder # "" /\ name # ""

\* what the event loop leaves alone
gfixed == <<pc, input_exists, n_pages, page_size, out_dir, out_file0, images, writer,
            i, ocr_data, text_layer, merged, failed_at, writes, rasterized,
            recognized, in_file, same_path, run, out1, ocr_log, lvars>>

\* event == "Select File"
GuiSelectFile ==
    /\ gpc = "loop"
    /\ event' = "Select File"
    /\ \E f \in FileChoices : selected_file' = f
    /\ \E n \in NameChoices : output_name' = n
    /\ UNCHANGED <<gfixed, gpc, output_folder, calls, popups, result, out_file>>

\* event == "Select Folder"
GuiSelectFolder ==
    /\ gpc = "loop"
    /\ event' = "Select Folder"
    /\ \E d \in FolderChoices : output_folder' = d
    /\ \E n \in NameChoices : output_name' = n
    /\ UNCHANGED <<gfixed, gpc, selected_file, calls, popups, result, out_file>>

\* event == "Start OCR": the popup and continue when something is missing,
\* otherwise process_pdf, the popup of its result, and break on success
GuiStartOCR ==
    /\ gpc = "loop"
    /\ Len(calls) < MaxRuns
    /\ event' = "Start OCR"
    /\ \E n \in NameChoices :
          /\ output_name' = n
          /\ IF ~AllGiven(selected_file, output_folder, n)
             THEN /\ popups' = "Please select input file, output folder, and filename."
                  /\ UNCHANGED <<gpc, calls, result, out_file>>
             ELSE /\ calls' = Append(calls, [input |-> selected_file,
                                              folder |-> output_folder, name |-> n])
                  /\ \E o \in ProcessPdf(selected_file, out_file) :
                        /\ result' = o.result
                        /\ out_file' = o.file
                        /\ popups' = IF o.result.success THEN "Success!" ELSE "Error"
                        /\ gpc' = IF o.result.success THEN "ended" ELSE "loop"
    /\ UNCHANGED <<gfixed, selected_file, output_folder>>

\* event == "Cancel"
GuiCancel ==
    /\ gpc = "loop"
    /\ event' = "Cancel"
    /\ gpc' = "ended"
    /\ \E n \in NameChoices : output_name' = n
    /\ UNCHANGED <<gfixed, selected_file, output_folder, calls, popups, result, out_file>>

\* the window is closed: event is None
GuiClose ==
    /\ gpc = "loop"
    /\ event' = "closed"
    /\ gpc' = "ended"
    /\ UNCHANGED <<gfixed, selected_file, output_folder, output_name, calls, popups,
                   result, out_file>>

InitGui ==
    /\ pc = "idle"
    /\ input_exists = TRUE
    /\ n_pages = 0
    /\ page_size = <<>>
    /\ out_dir = "present"
    /\ out_file \in {Absent, Old}
    /\ out_file0 = out_file
    /\ in_file = Old
    /\ same_path = FALSE
    /\ OneCall
    /\ images = <<>>
    /\ writer = <<>>
    /\ i = 0
    /\ ocr_data = Dict(<<>>)
    /\ text_layer = NoLayer
    /\ merged = NoPage
    /\ result = NoResult
    /\ failed_at = "none"
    /\ writes = 0
    /\ rasterized = 0
    /\ recognized = <<>>
    /\ LayerIdle
    /\ gpc = "loop"
    /\ selected_file = ""
    /\ output_folder = ""
    /\ output_name = "output"
    /\ calls = <<>>
    /\ popups = ""
    /\ event = "none"

NextGui ==
    \/ GuiSelectFile
    \/ GuiSelectFolder
    \/ GuiStartOCR
    \/ GuiCancel
    \/ GuiClose

SpecGui == InitGui /\ [][NextGui]_vars

\* Every end of a call of process_pdf is one ProcessPdf allows.
SummaryAgrees ==
    pc \in {"Done", "Failed"} =>
        \E o \in ProcessPdf(IF input_exists THEN "scan.pdf" ELSE "gone.pdf", out_file0) :
            /\ o.result.success = result.success
            /\ o.file.state = out_file.state

\* a step of the loop in which process_pdf was called
Called == Len(calls') > Len(calls)

\* C19: process_pdf is called only on a Start OCR event at which the selected
\* file, the output folder and the file name are all non-empty; a Start OCR with
\* one of them missing calls nothing and writes no file; a failed run leaves
\* the loop running; and the loop ends only after a successful run, Cancel or
\* the closing of the window.
C19_EventLoop ==
    /\ [](\A n \in 1..Len(calls) :
            calls[n].input # "" /\ calls[n].folder # "" /\ calls[n].name # "")
    /\ [][Called => (event' = "Start OCR" /\ selected_file # "" /\ output_folder # ""
                        /\ output_name' # ""
                        /\ calls' = Append(calls, [input |-> selected_file,
                                                    folder |-> output_folder,
                                                    name |-> output_name']))]_vars
    /\ [][(out_file' # out_file \/ result' # result) => Called]_vars
    /\ [][(event' = "Start OCR" /\ gpc = "loop"
              /\ (selected_file = "" \/ output_folder = "" \/ output_name' = ""))
            => (~Called /\ out_file' = out_file /\ gpc' = "loop")]_vars
    /\ [][(Called /\ ~result'.success) => gpc' = "loop"]_vars
    /\ [](gpc = "ended" =>
            \/ event = "Start OCR" /\ calls # <<>> /\ result.success
            \/ event = "Cancel"
            \/ event = "closed")

\* a second run started after a failed one, and it succeeded
C19_Witness ==
    /\ gpc = "ended"
    /\ Len(calls) = 2
    /\ event = "Start OCR"
    /\ result.success
    /\ out_file.state = "written"

----------------------------------------------------------------------------
(* Properties of process_pdf (specification Spec) *)

\* C1: a run that returns failure leaves the file at output_path as it was when
\* the run started, whatever step raised the error.
C1_FailureWritesNothing == pc = "Failed" => out_file = out_file0

\* C2: when the input path does not exist, process_pdf returns failure from the
\* existence check: nothing was rasterized, no page was recognized, the output
\* file was never opened and is as it was.
C2_MissingInputFails ==
    (~input_exists /\ pc # "Validate") =>
        /\ pc = "Failed"
        /\ failed_at = "Validate"
        /\ result.returned /\ ~result.success
        /\ rasterized = 0
        /\ recognized = <<>>
        /\ writes = 0
        /\ out_file = out_file0

C2_Witness ==
    /\ ~input_exists
    /\ pc = "Failed"
    /\ out_file0 = Absent
    /\ out_file = Absent
    /\ out_dir = "present"

\* C3: a run ends Done with (True, message) or Failed with (False, message) and
\* in no other way: an exception raised at any step is caught and becomes the
\* Failed result, and nothing is returned before the end.
C3_TwoOutcomes ==
    /\ pc \in Steps \cup {"Done", "Failed"}
    /\ pc \in Steps => (~result.returned /\ failed_at = "none")
    /\ pc = "Done" => (result.returned /\ result.success /\ failed_at = "none")
    /\ pc = "Failed" => (result.returned /\ ~result.success /\ failed_at \in Steps)
    /\ failed_at # "none" => pc = "Failed"

C3_Witness == pc = "Failed" /\ failed_at = "Synthesize" /\ i = 1

\* Failed is reached from each of the steps.
C3_FailedAtValidate == pc = "Failed" /\ failed_at = "Validate"
C3_FailedAtRasterize == pc = "Failed" /\ failed_at = "Rasterize"
C3_FailedAtRecognize == pc = "Failed" /\ failed_at = "Recognize"
C3_FailedAtComposite == pc = "Failed" /\ failed_at = "Composite"
C3_FailedAtAppend == pc = "Failed" /\ failed_at = "Append"
C3_FailedAtFinalize == pc = "Failed" /\ failed_at = "Finalize"

\* C7: pages are recognized in the order 1..N; page k of the writer is input
\* page k merged with the layer made from image k; a successful run wrote
\* exactly these N pages.
C7_PagesInOrder ==
    /\ \A k \in 1..Len(recognized) : recognized[k] = k
    /\ pc \in {"Synthesize", "Composite", "Append"} => Len(recognized) = i + 1
    /\ pc = "Composite" => text_layer.image = i + 1
    /\ \A k \in 1..Len(writer) : writer[k].orig = k /\ writer[k].layer.image = k
    /\ Len(writer) = i
    /\ pc = "Done" =>
          /\ out_file.state = "written"
          /\ out_file.pages = writer
          /\ Len(out_file.pages) = n_pages

C7_Witness ==
    /\ pc = "Done"
    /\ Len(out_file.pages) >= 2
    /\ out_file.pages[1].layer.canvas # out_file.pages[2].layer.canvas

\* C8: the output file is opened for writing at most once, only after all N
\* pages were recognized, synthesized, merged and appended without an error,
\* and exactly once in a run that returns success.
C8_FinalizeOnceAndLast ==
    /\ writes <= 1
    /\ writes = 1 =>
          /\ Len(writer) = n_pages
          /\ recognized = [k \in 1..n_pages |-> k]
          /\ failed_at \in {"none", "Finalize"}
    /\ pc = "Done" => writes = 1
    /\ out_file # out_file0 => writes = 1

C8_Witness == pc = "Done" /\ writes = 1 /\ n_pages >= 2 /\ Len(writer) = n_pages

\* C9: a page whose recognition output misses a field, or whose lists differ in
\* length, gets no text layer: _create_text_layer raises and the run fails.
C9_MalformedRejected == pc = "Composite" => WellFormed(ocr_data)

\* C11: the file at input_path has the same content after a run as before it,
\* whatever the output path, the input path itself included.
C11_InputReadOnly ==
    pc \in {"Done", "Failed"} => in_file = (IF input_exists THEN Old ELSE Absent)

\* a well-formed result with no word at or above the threshold
NoWords(d) ==
    /\ WellFormed(d)
    /\ \A k \in 1..Len(d["conf"]) : d["conf"][k] < conf_threshold

\* C12: a page with no recognized word, or only words below the threshold, gets
\* a layer without drawing commands; synthesizing it raises nothing, and the
\* page is appended at its own index like any other page.
C12_EmptyPageKept ==
    /\ (pc = "Failed" /\ failed_at = "Synthesize") => ~NoWords(ocr_data)
    /\ (pc \in {"Composite", "Append"} /\ NoWords(ocr_data)) =>
          text_layer = [image |-> i + 1, canvas |-> <<>>]
    /\ (pc = "Append" /\ NoWords(ocr_data)) =>
          merged = [orig |-> i + 1, layer |-> [image |-> i + 1, canvas |-> <<>>]]
    /\ pc \in {"Recognize", "Synthesize", "Composite", "Append", "Finalize", "Done"} =>
          /\ Len(writer) = i
          /\ \A k \in 1..Len(writer) : writer[k].orig = k
    /\ pc = "Done" => Len(out_file.pages) = n_pages

\* an empty first page, and the second page in its place after it
C12_Witness ==
    /\ pc = "Done"
    /\ Len(out_file.pages) = 2
    /\ out_file.pages[1] = [orig |-> 1, layer |-> [image |-> 1, canvas |-> <<>>]]
    /\ out_file.pages[2].orig = 2
    /\ out_file.pages[2].layer.canvas # <<>>

\* C14: with an existing input, Validate does not fail because of the output
\* path; stated for the output path the claim names, a bare file name, whose
\* directory part is empty: the run gets past Validate.
C14_BareNameValidates ==
    (input_exists /\ out_dir = "none" /\ pc # "Validate") => failed_at # "Validate"

\* The rest of C14 holds: a directory that was absent, or already present, is
\* there once Validate is passed.
C14_DirectoryCreated ==
    (pc \notin {"Validate", "Failed"}) => out_dir = "present"

----------------------------------------------------------------------------
(* process_pdf called twice on one processor, with the same arguments *)

TwiceInputs == {Dict(ws) : ws \in SeqsUpTo(PageCatalog, MaxPageWords)}

\* image_to_data is a function of the image and the configuration: the first
\* call records what it returned for each image, the second call gets the same.
RecognizeSame ==
    /\ pc = "Recognize"
    /\ recognized' = Append(recognized, images[i + 1].page)
    /\ \E ok \in BOOLEAN :
          IF ok
          THEN /\ \E o \in IF run = 1 THEN TwiceInputs ELSE {ocr_log[i + 1]} :
                     /\ ocr_data' = o
                     /\ ocr_log' = IF run = 1 THEN Append(ocr_log, o) ELSE ocr_log
               /\ pc' = "Synthesize"
               /\ UNCHANGED <<result, failed_at>>
          ELSE Raise("Recognize") /\ UNCHANGED <<ocr_data, ocr_log>>
    /\ UNCHANGED <<in_file, input_exists, n_pages, page_size, out_dir, out_file, out_file0,
                   images, writer, i, text_layer, merged, writes, rasterized, lvars,
                   same_path, run, out1, gpc, selected_file, output_folder,
                   output_name, calls, popups, event>>

\* The first call returned success and process_pdf is called again: nothing of
\* the processor is reset, the locals of the first call are left as they were
\* (the code has to set what it uses), the counters of the call start again.
CallAgain ==
    /\ pc = "Done"
    /\ run = 1
    /\ run' = 2
    /\ out1' = out_file
    /\ out_file0' = out_file
    /\ pc' = "Validate"
    /\ result' = NoResult
    /\ failed_at' = "none"
    /\ writes' = 0
    /\ rasterized' = 0
    /\ recognized' = <<>>
    /\ UNCHANGED <<in_file, input_exists, n_pages, page_size, out_dir, out_file, images,
                   writer, i, ocr_data, text_layer, merged, lvars, same_path, ocr_log,
                   gpc, selected_file, output_folder, output_name, calls, popups, event>>

\* The input exists and the output is another file, in an existing directory.
InitTwice ==
    /\ Init
    /\ same_path = FALSE
    /\ input_exists = TRUE
    /\ out_dir = "present"

NextTwice ==
    \/ Validate
    \/ Rasterize
    \/ RecognizeSame
    \/ Synthesize
    \/ Composite
    \/ AppendPage
    \/ Finalize
    \/ CallAgain

SpecTwice == InitTwice /\ [][NextTwice]_vars

\* the (position, text) pairs a page of a written file renders
Rendered(page) ==
    {<<page.layer.canvas[k].x, page.layer.canvas[k].y, page.layer.canvas[k].text>> :
        k \in 1..Len(page.layer.canvas)}

\* C13: a second call on the same input, with the same configuration and the
\* same recognition results, writes a document with the same number of pages
\* and the same rendered (position, text) pairs on every page as the first.
C13_SecondRunSame ==
    (run = 2 /\ pc = "Done") =>
        /\ out1.state = "written"
        /\ out_file.state = "written"
        /\ Len(out_file.pages) = Len(out1.pages)
        /\ \A k \in 1..Len(out1.pages) :
              /\ out_file.pages[k].orig = out1.pages[k].orig
              /\ Rendered(out_file.pages[k]) = Rendered(out1.pages[k])

C13_Witness ==
    /\ run = 2
    /\ pc = "Done"
    /\ Len(out_file.pages) = 2
    /\ Rendered(out_file.pages[1]) # {}
    /\ Rendered(out_file.pages[1]) # Rendered(out_file.pages[2])

----------------------------------------------------------------------------
(* Properties of _create_text_layer (specification SpecLayer) *)

Commands == {st.canvas[k] : k \in 1..Len(st.canvas)}
Drawn(k) == \E cmd \in Commands : cmd.idx = k

\* the words the loop has gone through
Seen == IF lpc = "loop" THEN 1..(wi - 1)
        ELSE IF lpc = "returned" THEN 1..Len(ocr_data["text"])
        ELSE {}

\* the words put into text_block so far
Buffered ==
    {st.text_block[k].idx : k \in 1..Len(st.text_block)}
        \cup UNION {{st.flushed[g][k] : k \in 1..Len(st.flushed[g])} :
                       g \in 1..Len(st.flushed)}

\* C4: a word whose confidence is below the threshold never gets a drawing
\* command (it never enters a block), and a word whose confidence equals the
\* threshold is not filtered out.
C4_StrictThreshold ==
    WellFormed(ocr_data) =>
        /\ \A cmd \in Commands : ocr_data["conf"][cmd.idx] >= conf_threshold
        /\ \A k \in Seen :
              /\ ocr_data["conf"][k] < conf_threshold => k \notin Buffered
              /\ ocr_data["conf"][k] = conf_threshold => k \in Buffered

C4_Witness ==
    /\ WellFormed(ocr_data)
    /\ lpc = "returned"
    /\ \E k \in Seen : ocr_data["conf"][k] = conf_threshold /\ Drawn(k)
    /\ \E k \in Seen : ocr_data["conf"][k] = conf_threshold - 1 /\ ~Drawn(k)

\* C5: a drawing command is placed at x = left and y = H - top - height of
\* its word, H the page's height.
C5_Position ==
    WellFormed(ocr_data) =>
        \A cmd \in Commands :
            /\ cmd.x = ocr_data["left"][cmd.idx]
            /\ cmd.y = size[2] - ocr_data["top"][cmd.idx] - ocr_data["height"][cmd.idx]

C5_Witness ==
    /\ WellFormed(ocr_data)
    /\ lpc = "returned"
    /\ size[2] = 1000
    /\ \E cmd \in Commands :
          /\ ocr_data["top"][cmd.idx] = 100
          /\ ocr_data["height"][cmd.idx] = 20
          /\ cmd.y = 880
          /\ cmd.x = 10

RECURSIVE Concat(_)
Concat(ss) == IF ss = <<>> THEN <<>> ELSE Head(ss) \o Concat(Tail(ss))

RECURSIVE Upto(_)
Upto(n) == IF n = 0 THEN <<>> ELSE Append(Upto(n - 1), n)

\* the words at or above the threshold, in input order
Accepted ==
    SelectSeq(Upto(Len(ocr_data["text"])),
              LAMBDA k : ocr_data["conf"][k] >= conf_threshold)

BlockOf(k) == ocr_data["block_num"][k]

\* C6: the blocks flushed are the maximal runs of equal block id of the accepted
\* words, in order: together they are the accepted words in input order, each
\* has one block id, and two consecutive ones have different ids.
C6_ContiguousRuns ==
    (WellFormed(ocr_data) /\ lpc = "returned") =>
        /\ Concat(st.flushed) = Accepted
        /\ \A g \in 1..Len(st.flushed) :
              /\ st.flushed[g] # <<>>
              /\ \A k \in 1..Len(st.flushed[g]) :
                    BlockOf(st.flushed[g][k]) = BlockOf(st.flushed[g][1])
        /\ \A g \in 1..(Len(st.flushed) - 1) :
              BlockOf(st.flushed[g][1]) # BlockOf(st.flushed[g + 1][1])

\* block ids 1, 1, 2, 1 give three groups
C6_Witness ==
    /\ WellFormed(ocr_data)
    /\ lpc = "returned"
    /\ Len(Accepted) = 4
    /\ [k \in 1..4 |-> BlockOf(Accepted[k])] = <<1, 1, 2, 1>>
    /\ st.flushed = <<<<1, 2>>, <<3>>, <<4>>>>

\* the accepted words whose drawing fails, and those that can be drawn
FailsToDraw(k) ==
    /\ ocr_data["conf"][k] >= conf_threshold
    /\ Strip(ocr_data["text"][k]) # <<>>
    /\ DrawRaises(CleanText(Strip(ocr_data["text"][k])))

Drawable(k) ==
    /\ ocr_data["conf"][k] >= conf_threshold
    /\ Strip(ocr_data["text"][k]) # <<>>
    /\ ~DrawRaises(CleanText(Strip(ocr_data["text"][k])))

\* C10: a word whose drawing fails is skipped and nothing else is lost: the
\* function does not raise, and when it returns every other drawable accepted
\* word has its drawing command, whatever words failed.
C10_DrawFailureIsLocal ==
    WellFormed(ocr_data) =>
        /\ lpc # "raised"
        /\ st.exc = "none"
        /\ lpc = "returned" =>
              \A k \in 1..Len(ocr_data["text"]) :
                  /\ Drawable(k) => Drawn(k)
                  /\ FailsToDraw(k) => ~Drawn(k)

\* a failing word followed by a drawn word of its block and one of a later block
C10_Witness ==
    /\ WellFormed(ocr_data)
    /\ lpc = "returned"
    /\ Len(ocr_data["text"]) >= 3
    /\ FailsToDraw(1)
    /\ Drawn(2) /\ BlockOf(2) = BlockOf(1)
    /\ Drawn(3) /\ BlockOf(3) # BlockOf(1)

\* the loop is at a word below the threshold
AtLowWord ==
    /\ lpc = "loop"
    /\ WellFormed(ocr_data)
    /\ wi <= Len(ocr_data["text"])
    /\ ocr_data["conf"][wi] < conf_threshold

\* accepted words j < k of one block id with no accepted word between them
Neighbours(j, k) ==
    /\ j < k
    /\ ocr_data["conf"][j] >= conf_threshold
    /\ ocr_data["conf"][k] >= conf_threshold
    /\ \A m \in (j + 1)..(k - 1) : ocr_data["conf"][m] < conf_threshold
    /\ BlockOf(j) = BlockOf(k)

SameGroup(j, k) ==
    \E g \in 1..Len(st.flushed) :
        /\ \E n \in 1..Len(st.flushed[g]) : st.flushed[g][n] = j
        /\ \E n \in 1..Len(st.flushed[g]) : st.flushed[g][n] = k

\* C15: the iteration for a word below the threshold changes nothing of the
\* synthesizer (block buffer, current block id, canvas, flushed blocks)
\* whatever the word's block id, and goes on to the next word; so accepted
\* words of one block id separated only by such words are flushed together.
C15_SkipChangesNothing ==
    /\ [][AtLowWord => (st' = st /\ lpc' = "loop" /\ wi' = wi + 1)]_vars
    /\ []((lpc = "returned" /\ WellFormed(ocr_data)) =>
            \A j, k \in 1..Len(ocr_data["text"]) :
                Neighbours(j, k) => SameGroup(j, k))

\* two words of block 1 around a low-confidence word of block 2: one group
C15_Witness ==
    /\ lpc = "returned"
    /\ WellFormed(ocr_data)
    /\ Len(ocr_data["text"]) = 3
    /\ ocr_data["block_num"] = <<1, 2, 1>>
    /\ ocr_data["conf"][2] < conf_threshold
    /\ st.flushed = <<<<1, 3>>>>
    /\ Len(st.canvas) = 2

\* what is left of a word's text after sanitization and trimming
Sanitized(k) == Strip(CleanText(Strip(ocr_data["text"][k])))

\* C16: a word whose text is empty after sanitization and trimming gets no
\* drawing command.
C16_EmptyWordSkipped ==
    WellFormed(ocr_data) =>
        \A k \in 1..Len(ocr_data["text"]) : Sanitized(k) = <<>> => ~Drawn(k)

\* The rest of C16 holds: such a word does not stop the other words of its
\* block from being drawn.
C16_OthersStillDrawn ==
    (WellFormed(ocr_data) /\ lpc = "returned") =>
        \A k \in 1..Len(ocr_data["text"]) : Drawable(k) => Drawn(k)

\* C17: when _create_text_layer returns, the flushed blocks hold every word at
\* or above the threshold exactly once and in input order, the final block
\* included; no word of the buffer is left unflushed; and the drawing commands
\* come in the order of their words.
C17_NothingLostOrDuplicated ==
    (WellFormed(ocr_data) /\ lpc = "returned") =>
        /\ Concat(st.flushed) = Accepted
        /\ \A n \in 1..Len(st.text_block) :
              \E m \in 1..Len(Concat(st.flushed)) :
                  Concat(st.flushed)[m] = st.text_block[n].idx
        /\ \A m, n \in 1..Len(st.canvas) :
              m < n => st.canvas[m].idx < st.canvas[n].idx
        /\ \A k \in 1..Len(ocr_data["text"]) :
              Cardinality({n \in 1..Len(st.canvas) : st.canvas[n].idx = k}) <= 1

\* two blocks, the second flushed by the end of the page only
C17_Witness ==
    /\ WellFormed(ocr_data)
    /\ lpc = "returned"
    /\ Len(st.flushed) = 2
    /\ Len(st.flushed[2]) = 2
    /\ Len(st.canvas) = 3
    /\ Len(Accepted) < Len(ocr_data["text"])

\* the buffer holds words of the current block id only, and the current block
\* id is the sentinel exactly as long as no word was accepted
Homogeneous ==
    (WellFormed(ocr_data) /\ lpc \in {"call", "loop", "returned"}) =>
        /\ \A n \in 1..Len(st.text_block) :
              BlockOf(st.text_block[n].idx) = st.last_block_num
        /\ (st.last_block_num = Sentinel) <=> (Buffered = {})

\* a step that hands a block to _write_text_block is the end of the page, or the
\* iteration of an accepted word whose block id is not the current one
FlushOnlyOnBoundary ==
    (WellFormed(ocr_data) /\ Len(st'.flushed) > Len(st.flushed)) =>
        \/ lpc = "loop" /\ lpc' = "returned"
        \/ /\ lpc = "loop" /\ lpc' = "loop"
           /\ ocr_data["conf"][wi] >= conf_threshold
           /\ BlockOf(wi) # st.last_block_num
           /\ st'.last_block_num = BlockOf(wi)

\* C18: at every point of synthesizing a page the words of the block buffer
\* have one block id, the current one; the current block id is the sentinel only
\* while no word has been accepted; and a block is flushed only by an accepted
\* word of another block id or by the end of the page.
C18_BufferHomogeneous == []Homogeneous /\ [][FlushOnlyOnBoundary]_vars

\* in the loop, after a flush, with two words of the new block buffered
C18_Witness ==
    /\ WellFormed(ocr_data)
    /\ lpc = "loop"
    /\ Len(st.flushed) = 1
    /\ Len(st.text_block) = 2
    /\ st.last_block_num = 2
    /\ wi <= Len(ocr_data["text"])

====
